---- MODULE Spec2Model ----
(***************************************************************************)
(* Model of src/main.py (ArtistGrid bot): the row formatter parse_csv_row, *)
(* the fetcher fetch_csv, the chunker of send_paginated_response and the   *)
(* two slash-command handlers search and list_trackers.                    *)
(*                                                                         *)
(* Text is a sequence of one-character strings, so that len(), lower(),    *)
(* strip(), `in` and the regular expression are computed as Python does.   *)
(***************************************************************************)
EXTENDS Naturals, Sequences, FiniteSets, TLC

(***************************************************************************)
(* Bounds of the model.                                                    *)
(***************************************************************************)
MaxRows == 6          \* rows of a dataset handed to the search filter
MaxLines == 3         \* formatted records handed to the chunker
MaxLineLen == 5       \* characters of one such record
MaxChunkSize == 9     \* largest chunk_size handed to the chunker
NumRequests == 2      \* concurrent interactions

(***************************************************************************)
(* Program constants.                                                      *)
(***************************************************************************)
\* 1395824457527988377, as two base-10^9 limbs (the value exceeds a machine int)
ALLOWED_GUILD_ID == <<1395824457, 527988377>>
DefaultChunkSize == 1800
SearchLimit == 5
SheetIdLen == 44
HTTP_OK == 200

(***************************************************************************)
(* Characters and text.                                                    *)
(***************************************************************************)
Star == "U+2B50"      \* the one-code-point star glyph of line 34
NL == "\n"

LowerAlpha ==
  <<"a", "b", "c", "d", "e", "f", "g", "h", "i", "j", "k", "l", "m", "n", "o", "p", "q", "r", "s", "t", "u", "v", "w", "x", "y", "z">>

UpperAlpha ==
  <<"A", "B", "C", "D", "E", "F", "G", "H", "I", "J", "K", "L", "M", "N", "O", "P", "Q", "R", "S", "T", "U", "V", "W", "X", "Y", "Z">>

Digits ==
  <<"0", "1", "2", "3", "4", "5", "6", "7", "8", "9">>

Range(s) == {s[i] : i \in 1..Len(s)}

Whitespace == {" ", NL, "\t", "\r"}

\* str.lower() on one character
LowerOf == [c \in Range(UpperAlpha) |-> LowerAlpha[CHOOSE i \in 1..26 : UpperAlpha[i] = c]]

LowerCh(c) == IF c \in DOMAIN LowerOf THEN LowerOf[c] ELSE c

\* str.lower()
lower(s) == [i \in 1..Len(s) |-> LowerCh(s[i])]

\* str.strip()
strip(s) ==
  LET keep == {i \in 1..Len(s) : s[i] \notin Whitespace}
  IN IF keep = {} THEN <<>>
     ELSE LET lo == CHOOSE i \in keep : \A j \in keep : i <= j
              hi == CHOOSE i \in keep : \A j \in keep : j <= i
          IN SubSeq(s, lo, hi)

\* Python's `sub in s` on str
Contains(sub, s) ==
  \E i \in 0..Len(s) :
    /\ i + Len(sub) <= Len(s)
    /\ SubSeq(s, i + 1, i + Len(sub)) = sub

\* str(n) for a natural number n
RECURSIVE IntToStr(_)
IntToStr(n) ==
  IF n < 10 THEN <<Digits[n + 1]>>
  ELSE IntToStr(n \div 10) \o <<Digits[(n % 10) + 1]>>

\* the value csv.DictReader stores for a column a short line does not reach
None == <<"<None>">>

\* str(v) as an f-string renders a cell
Str(v) == IF v = None THEN <<"N", "o", "n", "e">> ELSE v

(***************************************************************************)
(* GOOGLE_SHEETS_RE and parse_csv_row.                                     *)
(***************************************************************************)
SheetsPrefix ==
  <<"h", "t", "t", "p", "s", ":", "/", "/", "d", "o", "c", "s", ".", "g", "o", "o", "g", "l", "e", ".", "c", "o", "m", "/", "s", "p", "r", "e", "a", "d", "s", "h", "e", "e", "t", "s", "/", "d", "/">>

SheetIdChars == Range(LowerAlpha) \cup Range(UpperAlpha) \cup Range(Digits) \cup {"-", "_"}

\* GOOGLE_SHEETS_RE.match(url) succeeds (anchored at the start only)
GOOGLE_SHEETS_RE_match(url) ==
  /\ Len(url) >= Len(SheetsPrefix) + SheetIdLen
  /\ SubSeq(url, 1, Len(SheetsPrefix)) = SheetsPrefix
  /\ \A i \in 1..SheetIdLen : url[Len(SheetsPrefix) + i] \in SheetIdChars

\* match.group(1)
GOOGLE_SHEETS_RE_group1(url) ==
  SubSeq(url, Len(SheetsPrefix) + 1, Len(SheetsPrefix) + SheetIdLen)

TrackerHubPrefix ==
  <<"h", "t", "t", "p", "s", ":", "/", "/", "t", "r", "a", "c", "k", "e", "r", "h", "u", "b", ".", "c", "x", "/", "s", "h", "/">>

Columns == {"Artist Name", "Best", "URL", "Credit", "Links Work", "Updated"}

\* a row every column of which holds text
WellFormed(row) ==
  \A c \in Columns : c \in DOMAIN row /\ row[c] # None

\* parse_csv_row(row) raises: KeyError for a column the header lacks,
\* AttributeError for None.strip(), TypeError for a match against None
parse_csv_row_raises(row) ==
  \/ \E c \in Columns : c \notin DOMAIN row
  \/ row["Best"] = None
  \/ row["URL"] = None

\* the name as line 32-34 decorates it
DecoratedName(row) ==
  IF lower(strip(row["Best"])) = <<"y", "e", "s">>
    THEN <<Star>> \o Str(row["Artist Name"]) \o <<Star>>
    ELSE Str(row["Artist Name"])

\* the url as line 36-40 rewrites it
RewrittenUrl(row) ==
  IF GOOGLE_SHEETS_RE_match(row["URL"])
    THEN TrackerHubPrefix \o GOOGLE_SHEETS_RE_group1(row["URL"])
    ELSE row["URL"]

\* parse_csv_row(row) when it returns
parse_csv_row(row) ==
  <<"[">> \o DecoratedName(row) \o <<"]", "(">> \o RewrittenUrl(row) \o <<")">>
  \o <<"\n", "c", "r", "e", "d", "i", "t", ":", " ", "(">> \o Str(row["Credit"])
  \o <<")", "\n", "L", "i", "n", "k", "s", " ", "w", "o", "r", "k", ":", " ">> \o Str(row["Links Work"])
  \o <<"\n", "U", "p", "d", "a", "t", "e", "d", ":", " ">> \o Str(row["Updated"])

(***************************************************************************)
(* fetch_csv: a response is what the GET of CSV_URL produces.              *)
(***************************************************************************)
HttpResponse(status, rows) == [exc |-> <<>>, status |-> status, rows |-> rows]

ClientError(msg) == [exc |-> msg, status |-> 0, rows |-> <<>>]

NoResponse == [exc |-> <<>>, status |-> 0, rows |-> <<>>]

\* fetch_csv() without the status check of lines 53-54
fetch_csv_raises_unchecked(resp) == resp.exc # <<>>

\* fetch_csv() raises: the session raised, or line 53-54
fetch_csv_raises(resp) == resp.exc # <<>> \/ resp.status # HTTP_OK

\* str(e) of the exception fetch_csv() raised
fetch_csv_error(resp) ==
  IF resp.exc # <<>> THEN resp.exc
  ELSE <<"F", "a", "i", "l", "e", "d", " ", "t", "o", " ", "f", "e", "t", "c", "h", " ", "C", "S", "V", ":", " ", "H", "T", "T", "P", " ">>
       \o IntToStr(resp.status)

\* the list fetch_csv() returns
fetch_csv(resp) == resp.rows

(***************************************************************************)
(* The chunker of send_paginated_response, lines 60-68.                    *)
(***************************************************************************)
Separator == <<NL, NL>>

\* the loop body cutting the text at chunk_size instead of sealing before the record
ChunkStepSplit(acc, line, chunk_size) ==
  LET block == line \o Separator
      cur == acc.current_chunk
  IN IF Len(cur) + Len(block) > chunk_size /\ Len(cur) < chunk_size
       THEN [chunks |-> Append(acc.chunks, cur \o SubSeq(block, 1, chunk_size - Len(cur))),
             current_chunk |-> SubSeq(block, (chunk_size - Len(cur)) + 1, Len(block))]
       ELSE [acc EXCEPT !.current_chunk = cur \o block]

\* the loop body with the separator left out of the test of line 63
ChunkStepNoSeparator(acc, line, chunk_size) ==
  LET sealed == IF Len(acc.current_chunk) + Len(line) > chunk_size
                  THEN [chunks |-> Append(acc.chunks, acc.current_chunk),
                        current_chunk |-> <<>>]
                  ELSE acc
  IN [sealed EXCEPT !.current_chunk = sealed.current_chunk \o line \o Separator]

\* one iteration of the loop, lines 63-66, on acc = [chunks, current_chunk]
ChunkStep(acc, line, chunk_size) ==
  LET sealed == IF Len(acc.current_chunk) + Len(line) + 2 > chunk_size
                  THEN [chunks |-> Append(acc.chunks, acc.current_chunk),
                        current_chunk |-> <<>>]
                  ELSE acc
  IN [sealed EXCEPT !.current_chunk = sealed.current_chunk \o line \o Separator]

\* the chunker without lines 67-68
ChunkFinishNoSeal(acc) == acc.chunks

\* lines 67-68
ChunkFinish(acc) ==
  IF acc.current_chunk # <<>>
    THEN Append(acc.chunks, acc.current_chunk)
    ELSE acc.chunks

RECURSIVE ChunkLoop(_, _, _, _)
ChunkLoop(acc, lines, k, chunk_size) ==
  IF k > Len(lines) THEN acc
  ELSE ChunkLoop(ChunkStep(acc, lines[k], chunk_size), lines, k + 1, chunk_size)

\* the list `chunks` line 70 iterates over
send_paginated_chunks(lines, chunk_size) ==
  ChunkFinish(ChunkLoop([chunks |-> <<>>, current_chunk |-> <<>>], lines, 1, chunk_size))

(***************************************************************************)
(* The result lists of the two handlers.                                   *)
(***************************************************************************)
\* the filter of line 106 raises on this row
RowFilterRaises(row) ==
  "Artist Name" \notin DOMAIN row \/ row["Artist Name"] = None

\* the filter applied to the name as displayed
RowMatchesDecorated(artist, row) ==
  Contains(lower(artist), lower(DecoratedName(row)))

\* the filter of lines 102 and 106
RowMatches(artist, row) ==
  Contains(lower(artist), lower(row["Artist Name"]))

\* the comprehension of lines 103-107 raises
search_raises(data, artist) ==
  \E i \in 1..Len(data) :
    \/ RowFilterRaises(data[i])
    \/ RowMatches(artist, data[i]) /\ parse_csv_row_raises(data[i])

\* results of lines 103-107
search_results(data, artist) ==
  LET hits == SelectSeq(data, LAMBDA row : RowMatches(artist, row))
      all == [i \in 1..Len(hits) |-> parse_csv_row(hits[i])]
  IN SubSeq(all, 1, IF Len(all) < SearchLimit THEN Len(all) ELSE SearchLimit)

\* the comprehension of line 128 raises
list_raises(data) ==
  \E i \in 1..Len(data) : parse_csv_row_raises(data[i])

\* results of line 128
list_results(data) == [i \in 1..Len(data) |-> parse_csv_row(data[i])]

RejectMessage ==
  <<"T", "h", "i", "s", " ", "c", "o", "m", "m", "a", "n", "d", " ", "c", "a", "n", " ", "o", "n", "l", "y", " ", "b", "e", " ", "u", "s", "e", "d", " ", "i", "n", " ", "t", "h", "e", " ", "a", "u", "t", "h", "o", "r", "i", "z", "e", "d", " ", "s", "e", "r", "v", "e", "r", ".">>

\* the f-string of line 110
NoResultsMessage(artist) ==
  <<"N", "o", " ", "r", "e", "s", "u", "l", "t", "s", " ", "f", "o", "u", "n", "d", " ", "f", "o", "r", " ", "'">>
  \o artist \o <<"'", ".">>

NoTrackersMessage ==
  <<"N", "o", " ", "t", "r", "a", "c", "k", "e", "r", "s", " ", "f", "o", "u", "n", "d", ".">>

(***************************************************************************)
(* Inputs.                                                                 *)
(***************************************************************************)
SeqsUpTo(S, n) == UNION {[1..k -> S] : k \in 0..n}

Rep(c, n) == [i \in 1..n |-> c]

Row(name, best, url, credit, links, updated) ==
  ("Artist Name" :> name) @@ ("Best" :> best) @@ ("URL" :> url)
  @@ ("Credit" :> credit) @@ ("Links Work" :> links) @@ ("Updated" :> updated)

PlainUrl == <<"h", "t", "t", "p", "s", ":", "/", "/", "e", "x", ".", "c", "x", "/", "a">>

SheetsUrl == SheetsPrefix \o Rep("X", SheetIdLen) \o <<"/", "e", "d", "i", "t">>

Alice == Row(<<"A", "l", "i", "c", "e">>, <<" ", "Y", "e", "s", " ">>, PlainUrl, <<"c">>, <<"y">>, <<"1">>)

Bob == Row(<<"B", "o", "b">>, <<"n", "o">>, SheetsUrl, <<"d">>, <<"n">>, <<"2">>)

\* a line "Natalie" of the sheet: the columns it does not reach hold None
ShortRow == Row(<<"N", "a", "t", "a", "l", "i", "e">>, None, None, None, None, None)

LongRow(n) == Row(<<"M", "a", "x">> \o IntToStr(n), <<"n", "o">>, PlainUrl, Rep("x", 900), <<"y">>, <<"3">>)

\* a sheet whose header has no Best column
NoBestRow == [c \in Columns \ {"Best"} |-> Alice[c]]

\* a record that alone is longer than DefaultChunkSize
HugeRow == Row(<<"H", "u", "g", "e">>, <<"n", "o">>, PlainUrl, Rep("x", DefaultChunkSize), <<"y">>, <<"4">>)

Datasets ==
  { <<>>, <<Alice, Bob>>, <<Alice, ShortRow>>, <<NoBestRow>>,
    <<LongRow(1), LongRow(2), LongRow(3), Alice>>, <<HugeRow, Bob>> }

Responses ==
  {HttpResponse(HTTP_OK, d) : d \in Datasets}
  \cup {HttpResponse(500, <<>>), HttpResponse(204, <<>>),
        ClientError(<<"t", "i", "m", "e", "o", "u", "t">>)}

Guilds == {ALLOWED_GUILD_ID, <<1395824457, 527988378>>}

Artists == {<<"a", "L", "i">>, <<"b", "o">>, <<"M", "A", "X">>, <<>>}

\* inputs of the interleaved interactions
ConcurrentResponses ==
  {HttpResponse(HTTP_OK, <<LongRow(1), LongRow(2), LongRow(3)>>), HttpResponse(500, <<>>)}

ConcurrentArtists == {<<"m", "a">>}

Requests == 1..NumRequests

\* inputs of the search filter: short rows, every query of up to two characters
SearchRows ==
  { Row(<<"A", "b">>, <<"Y", "E", "S">>, <<"u">>, <<"c">>, <<"y">>, <<"1">>),
    Row(<<"b", "a">>, <<"n", "o">>, <<"u">>, <<"c">>, <<"y">>, <<"1">>),
    Row(<<"B">>, <<"y", "e", "s", " ">>, <<"v">>, <<"c">>, <<"n">>, <<"2">>) }

SearchDatasets == SeqsUpTo(SearchRows, MaxRows)

SearchArtists == SeqsUpTo({"a", "B", Star}, 2)

\* inputs of the chunker: a record of every length, and two of equal length
ChunkerLines == {Rep("a", n) : n \in 1..MaxLineLen} \cup {<<"b">>}

(***************************************************************************)
(* State.                                                                  *)
(***************************************************************************)
VARIABLES
  pc,        \* per request: where its handler is suspended
  cmd,       \* per request: [name, guild_id, artist] of the interaction
  fetches,   \* per request: calls of fetch_csv() started
  fetched,   \* per request: the response its fetch_csv() saw
  results,   \* per request: the handler's list `results`
  chunks,    \* per request: the list `chunks` of send_paginated_response
  sent,      \* per request: the messages handed to Discord, in order
  escaped,   \* per request: the exception that left the handler
  cLines,    \* chunker run on its own: lines
  cSize,     \*   chunk_size
  cAcc,      \*   [chunks, current_chunk]
  cPos,      \*   index of the next line; 0 when no such run is under way
  cOut       \*   the list after lines 67-68

hvars == <<pc, cmd, fetches, fetched, results, chunks, sent, escaped>>

cvars == <<cLines, cSize, cAcc, cPos, cOut>>

vars == <<pc, cmd, fetches, fetched, results, chunks, sent, escaped, cLines, cSize, cAcc, cPos, cOut>>

NoCmd == [name |-> "none", guild_id |-> <<0, 0>>, artist |-> <<>>]

EmptyAcc == [chunks |-> <<>>, current_chunk |-> <<>>]

InitHandlers ==
  /\ pc = [r \in Requests |-> "idle"]
  /\ cmd = [r \in Requests |-> NoCmd]
  /\ fetches = [r \in Requests |-> 0]
  /\ fetched = [r \in Requests |-> NoResponse]
  /\ results = [r \in Requests |-> <<>>]
  /\ chunks = [r \in Requests |-> <<>>]
  /\ sent = [r \in Requests |-> <<>>]
  /\ escaped = [r \in Requests |-> "none"]

InitChunkerOff ==
  /\ cLines = <<>>
  /\ cSize = 0
  /\ cAcc = EmptyAcc
  /\ cPos = 0
  /\ cOut = <<>>

Init == InitHandlers /\ InitChunkerOff

(***************************************************************************)
(* The handlers.  A handler runs without interruption from one await to    *)
(* the next; a message is handed to Discord when the await starts and the  *)
(* handler resumes when Discord has answered (ok) or raised (not ok).      *)
(***************************************************************************)
Msg(kind, text) == [kind |-> kind, text |-> text, st |-> "pending"]

Answered(log, ok) ==
  [log EXCEPT ![Len(log)].st = IF ok THEN "ok" ELSE "failed"]

\* search without the guild check of lines 90-92
search_unchecked(r, guild_id, artist) ==
  /\ pc[r] = "idle"
  /\ cmd' = [cmd EXCEPT ![r] = [name |-> "search", guild_id |-> guild_id, artist |-> artist]]
  /\ pc' = [pc EXCEPT ![r] = "deferring"]
  /\ UNCHANGED <<fetches, fetched, results, chunks, sent, escaped>>
  /\ UNCHANGED cvars

\* lines 89-94: the guild check, then send_message or defer
search(r, guild_id, artist) ==
  /\ pc[r] = "idle"
  /\ cmd' = [cmd EXCEPT ![r] = [name |-> "search", guild_id |-> guild_id, artist |-> artist]]
  /\ IF guild_id # ALLOWED_GUILD_ID
       THEN /\ sent' = [sent EXCEPT ![r] = Append(@, Msg("reject", RejectMessage))]
            /\ pc' = [pc EXCEPT ![r] = "rejecting"]
       ELSE /\ pc' = [pc EXCEPT ![r] = "deferring"]
            /\ UNCHANGED sent
  /\ UNCHANGED <<fetches, fetched, results, chunks, escaped>>
  /\ UNCHANGED cvars

\* lines 115-120
list_trackers(r, guild_id) ==
  /\ pc[r] = "idle"
  /\ cmd' = [cmd EXCEPT ![r] = [name |-> "list", guild_id |-> guild_id, artist |-> <<>>]]
  /\ IF guild_id # ALLOWED_GUILD_ID
       THEN /\ sent' = [sent EXCEPT ![r] = Append(@, Msg("reject", RejectMessage))]
            /\ pc' = [pc EXCEPT ![r] = "rejecting"]
       ELSE /\ pc' = [pc EXCEPT ![r] = "deferring"]
            /\ UNCHANGED sent
  /\ UNCHANGED <<fetches, fetched, results, chunks, escaped>>
  /\ UNCHANGED cvars

\* lines 91-92 and 117-118: send_message answers, the handler returns
send_message_done(r, ok) ==
  /\ pc[r] = "rejecting"
  /\ sent' = [sent EXCEPT ![r] = Answered(@, ok)]
  /\ escaped' = [escaped EXCEPT ![r] = IF ok THEN "none" ELSE "send"]
  /\ pc' = [pc EXCEPT ![r] = "done"]
  /\ UNCHANGED <<cmd, fetches, fetched, results, chunks>>
  /\ UNCHANGED cvars

\* lines 94-97 and 120-123: defer answers, fetch_csv() starts
defer_done(r) ==
  /\ pc[r] = "deferring"
  /\ fetches' = [fetches EXCEPT ![r] = @ + 1]
  /\ pc' = [pc EXCEPT ![r] = "fetching"]
  /\ UNCHANGED <<cmd, fetched, results, chunks, sent, escaped>>
  /\ UNCHANGED cvars

\* what a handler does with its results: lines 109-112 and 129-132, up to
\* the first await (line 110, 130 or 71)
Deliver(r, res, none_message) ==
  /\ results' = [results EXCEPT ![r] = res]
  /\ IF res = <<>>
       THEN /\ sent' = [sent EXCEPT ![r] = Append(@, Msg("none", none_message))]
            /\ pc' = [pc EXCEPT ![r] = "sending_none"]
            /\ UNCHANGED chunks
       ELSE LET cs == send_paginated_chunks(res, DefaultChunkSize)
            IN /\ chunks' = [chunks EXCEPT ![r] = cs]
               /\ IF cs = <<>>
                    THEN /\ pc' = [pc EXCEPT ![r] = "done"]
                         /\ UNCHANGED sent
                    ELSE /\ sent' = [sent EXCEPT ![r] = Append(@, Msg("chunk", cs[1]))]
                         /\ pc' = [pc EXCEPT ![r] = "sending_chunks"]
  /\ UNCHANGED escaped

\* lines 96-100 and 122-126: fetch_csv() raised
FetchFailed(r, resp) ==
  /\ sent' = [sent EXCEPT ![r] = Append(@, Msg("error", fetch_csv_error(resp)))]
  /\ pc' = [pc EXCEPT ![r] = "sending_error"]
  /\ UNCHANGED <<results, chunks, escaped>>

\* an exception of the comprehension leaves the handler
RowRaised(r) ==
  /\ escaped' = [escaped EXCEPT ![r] = "row"]
  /\ pc' = [pc EXCEPT ![r] = "done"]
  /\ UNCHANGED <<results, chunks, sent>>

\* lines 96-112: fetch_csv() is over, search runs to its next await
search_fetch_done(r, resp) ==
  /\ pc[r] = "fetching"
  /\ cmd[r].name = "search"
  /\ fetched' = [fetched EXCEPT ![r] = resp]
  /\ IF fetch_csv_raises(resp) THEN FetchFailed(r, resp)
     ELSE IF search_raises(fetch_csv(resp), cmd[r].artist) THEN RowRaised(r)
     ELSE Deliver(r, search_results(fetch_csv(resp), cmd[r].artist),
                  NoResultsMessage(cmd[r].artist))
  /\ UNCHANGED <<cmd, fetches>>
  /\ UNCHANGED cvars

\* lines 122-132: fetch_csv() is over, list_trackers runs to its next await
list_fetch_done(r, resp) ==
  /\ pc[r] = "fetching"
  /\ cmd[r].name = "list"
  /\ fetched' = [fetched EXCEPT ![r] = resp]
  /\ IF fetch_csv_raises(resp) THEN FetchFailed(r, resp)
     ELSE IF list_raises(fetch_csv(resp)) THEN RowRaised(r)
     ELSE Deliver(r, list_results(fetch_csv(resp)), NoTrackersMessage)
  /\ UNCHANGED <<cmd, fetches>>
  /\ UNCHANGED cvars

\* lines 99-100, 110 and 130: followup.send answers, the handler returns
followup_done(r, ok) ==
  /\ pc[r] \in {"sending_error", "sending_none"}
  /\ sent' = [sent EXCEPT ![r] = Answered(@, ok)]
  /\ escaped' = [escaped EXCEPT ![r] = IF ok THEN "none" ELSE "send"]
  /\ pc' = [pc EXCEPT ![r] = "done"]
  /\ UNCHANGED <<cmd, fetches, fetched, results, chunks>>
  /\ UNCHANGED cvars

\* the chunks handed so far
ChunksHanded(log) == Len(SelectSeq(log, LAMBDA m : m.kind = "chunk"))

\* the loop of lines 70-71 going on after a failed send
chunk_sent_keep_going(r, ok) ==
  /\ pc[r] = "sending_chunks"
  /\ LET n == ChunksHanded(sent[r])
     IN IF n < Len(chunks[r])
          THEN /\ sent' = [sent EXCEPT ![r] = Append(Answered(@, ok), Msg("chunk", chunks[r][n + 1]))]
               /\ UNCHANGED <<pc, escaped>>
          ELSE /\ sent' = [sent EXCEPT ![r] = Answered(@, ok)]
               /\ escaped' = [escaped EXCEPT ![r] = IF ok THEN "none" ELSE "send"]
               /\ pc' = [pc EXCEPT ![r] = "done"]
  /\ UNCHANGED <<cmd, fetches, fetched, results, chunks>>
  /\ UNCHANGED cvars

\* lines 70-71: followup.send(chunk) answers; the loop goes on or ends
chunk_sent(r, ok) ==
  /\ pc[r] = "sending_chunks"
  /\ LET n == ChunksHanded(sent[r])
     IN IF ok /\ n < Len(chunks[r])
          THEN /\ sent' = [sent EXCEPT ![r] = Append(Answered(@, ok), Msg("chunk", chunks[r][n + 1]))]
               /\ UNCHANGED <<pc, escaped>>
          ELSE /\ sent' = [sent EXCEPT ![r] = Answered(@, ok)]
               /\ escaped' = [escaped EXCEPT ![r] = IF ok THEN "none" ELSE "send"]
               /\ pc' = [pc EXCEPT ![r] = "done"]
  /\ UNCHANGED <<cmd, fetches, fetched, results, chunks>>
  /\ UNCHANGED cvars

\* one interaction, every input
Next ==
  \/ \E g \in Guilds, a \in Artists : search(1, g, a)
  \/ \E g \in Guilds : list_trackers(1, g)
  \/ \E ok \in BOOLEAN : send_message_done(1, ok)
  \/ defer_done(1)
  \/ \E resp \in Responses : search_fetch_done(1, resp)
  \/ \E resp \in Responses : list_fetch_done(1, resp)
  \/ \E ok \in BOOLEAN : followup_done(1, ok)
  \/ \E ok \in BOOLEAN : chunk_sent(1, ok)

Spec == Init /\ [][Next]_vars

\* NumRequests interactions, interleaved at their awaits
NextConcurrent ==
  \/ \E r \in Requests, g \in Guilds, a \in ConcurrentArtists : search(r, g, a)
  \/ \E r \in Requests, g \in Guilds : list_trackers(r, g)
  \/ \E r \in Requests, ok \in BOOLEAN : send_message_done(r, ok)
  \/ \E r \in Requests : defer_done(r)
  \/ \E r \in Requests, resp \in ConcurrentResponses : search_fetch_done(r, resp)
  \/ \E r \in Requests, resp \in ConcurrentResponses : list_fetch_done(r, resp)
  \/ \E r \in Requests, ok \in BOOLEAN : followup_done(r, ok)
  \/ \E r \in Requests, ok \in BOOLEAN : chunk_sent(r, ok)

SpecConcurrent == Init /\ [][NextConcurrent]_vars

\* one search against every dataset of up to MaxRows short rows
NextSearch ==
  \/ \E a \in SearchArtists : search(1, ALLOWED_GUILD_ID, a)
  \/ defer_done(1)
  \/ pc[1] = "fetching" /\ \E d \in SearchDatasets : search_fetch_done(1, HttpResponse(HTTP_OK, d))
  \/ \E ok \in BOOLEAN : followup_done(1, ok)
  \/ \E ok \in BOOLEAN : chunk_sent(1, ok)

SpecSearch == Init /\ [][NextSearch]_vars

(***************************************************************************)
(* The chunker on its own, one loop iteration at a time.                   *)
(***************************************************************************)
InitChunker ==
  /\ InitHandlers
  /\ cLines \in SeqsUpTo(ChunkerLines, MaxLines)
  /\ cSize \in 1..MaxChunkSize
  /\ cAcc = EmptyAcc
  /\ cPos = 1
  /\ cOut = <<>>

\* lines 62-66
ChunkIter ==
  /\ cPos \in 1..Len(cLines)
  /\ cAcc' = ChunkStep(cAcc, cLines[cPos], cSize)
  /\ cPos' = cPos + 1
  /\ UNCHANGED <<cLines, cSize, cOut>>
  /\ UNCHANGED hvars

\* lines 67-68
ChunkSeal ==
  /\ cPos = Len(cLines) + 1
  /\ cOut' = ChunkFinish(cAcc)
  /\ cPos' = cPos + 1
  /\ UNCHANGED <<cLines, cSize, cAcc>>
  /\ UNCHANGED hvars

NextChunker == ChunkIter \/ ChunkSeal

SpecChunker == InitChunker /\ [][NextChunker]_vars

(***************************************************************************)
(* Vocabulary of the properties.                                           *)
(***************************************************************************)
RECURSIVE Flatten(_)
Flatten(texts) ==
  IF texts = <<>> THEN <<>> ELSE Head(texts) \o Flatten(Tail(texts))

\* records i..j, each followed by its blank-line separator
JoinBlocks(lines, i, j) ==
  Flatten([k \in 1..((j + 1) - i) |-> lines[(i + k) - 1] \o <<"\n", "\n">>])

\* where record block m ends in the joined text
BlockEnd(lines, m) == Len(JoinBlocks(lines, 1, m))

\* where chunk k ends in the concatenation of the chunks
ChunkEnd(cs, k) == Len(Flatten(SubSeq(cs, 1, k)))

\* the records whose block ends inside chunk k
RecordsIn(lines, cs, k) ==
  {m \in 1..Len(lines) :
     ChunkEnd(cs, k - 1) < BlockEnd(lines, m) /\ BlockEnd(lines, m) <= ChunkEnd(cs, k)}

\* q occurs in name, letter case ignored
CIContains(q, name) ==
  \E off \in 0..Len(name) :
    /\ off + Len(q) <= Len(name)
    /\ \A k \in 1..Len(q) : LowerCh(name[off + k]) = LowerCh(q[k])

\* the rows of D whose raw name contains q
MatchIdx(D, q) == {i \in 1..Len(D) : CIContains(q, D[i]["Artist Name"])}

\* the k-th smallest element of a set of indices
Nth(S, k) == CHOOSE i \in S : Cardinality({j \in S : j < i}) = k - 1

\* the chunk texts handed to Discord, in order
ChunkTexts(log) ==
  LET cs == SelectSeq(log, LAMBDA m : m.kind = "chunk")
  IN [k \in 1..Len(cs) |-> cs[k].text]

Kinds(log) == [k \in 1..Len(log) |-> log[k].kind]

IsPrefix(s, t) == Len(s) <= Len(t) /\ SubSeq(t, 1, Len(s)) = s

\* the handler of r has resumed from fetch_csv()
FetchOver(r) == fetches[r] = 1 /\ pc[r] # "fetching"

ChunkerDone == cPos = Len(cLines) + 2

\* the chunks sealed so far, and all of them once the chunker is done
Sealed == IF ChunkerDone THEN cOut ELSE cAcc.chunks

(***************************************************************************)
(* C1.  Search delivers exactly the first min(5, matches) rows, in the     *)
(* dataset's order, whose raw Artist Name contains the query ignoring      *)
(* case; the star decoration plays no part in the match.                   *)
(***************************************************************************)
C1_SearchDeliversFirstMatches ==
  (FetchOver(1) /\ cmd[1].name = "search" /\ fetched[1].status = 200
   /\ \A i \in 1..Len(fetched[1].rows) : WellFormed(fetched[1].rows[i]))
  =>
  LET D == fetched[1].rows
      M == MatchIdx(D, cmd[1].artist)
      n == IF Cardinality(M) < 5 THEN Cardinality(M) ELSE 5
      expected == [k \in 1..n |-> parse_csv_row(D[Nth(M, k)])]
  IN /\ results[1] = expected
     /\ IsPrefix(Flatten(ChunkTexts(sent[1])), JoinBlocks(expected, 1, n))
     /\ (pc[1] = "done" /\ escaped[1] = "none"
           => Flatten(ChunkTexts(sent[1])) = JoinBlocks(expected, 1, n))

\* six rows match "B" (as b or B), five are delivered
C1_Witness ==
  /\ pc[1] = "done" /\ escaped[1] = "none"
  /\ cmd[1].artist = <<"B">>
  /\ Cardinality(MatchIdx(fetched[1].rows, cmd[1].artist)) = 6
  /\ Len(results[1]) = 5
  /\ Len(ChunkTexts(sent[1])) = 1

(***************************************************************************)
(* C2.  Every chunk is the concatenation of a contiguous run of whole      *)
(* record blocks: no chunk boundary falls inside a block.                  *)
(***************************************************************************)
C2_ChunksAreWholeBlocks ==
  cPos >= 1 =>
    \A k \in 1..Len(Sealed) :
      \E i \in 0..Len(cLines), j \in 0..Len(cLines) :
        /\ i <= j
        /\ ChunkEnd(Sealed, k - 1) = BlockEnd(cLines, i)
        /\ ChunkEnd(Sealed, k) = BlockEnd(cLines, j)
        /\ Sealed[k] = JoinBlocks(cLines, i + 1, j)

\* three records in two chunks, the first chunk holding two of them
C2_Witness ==
  /\ ChunkerDone
  /\ Len(cLines) = 3
  /\ Len(cOut) = 2
  /\ Cardinality(RecordsIn(cLines, cOut, 1)) = 2

(***************************************************************************)
(* C3.  A chunk holding two or more records is at most chunk_size long; a  *)
(* chunk longer than chunk_size holds exactly one record, whose length     *)
(* with its separator alone exceeds chunk_size.                            *)
(***************************************************************************)
C3_ChunkSizeBound ==
  ChunkerDone =>
    \A k \in 1..Len(cOut) :
      LET held == RecordsIn(cLines, cOut, k)
      IN /\ Cardinality(held) >= 2 => Len(cOut[k]) <= cSize
         /\ Len(cOut[k]) > cSize =>
              /\ Cardinality(held) = 1
              /\ \A m \in held : Len(cLines[m]) + 2 > cSize

\* a chunk of two records that fills chunk_size exactly, beside an oversized one
C3_Witness ==
  /\ ChunkerDone
  /\ \E k \in 1..Len(cOut) :
       Cardinality(RecordsIn(cLines, cOut, k)) = 2 /\ Len(cOut[k]) = cSize
  /\ \E k \in 1..Len(cOut) : Len(cOut[k]) > cSize

(***************************************************************************)
(* C4.  The chunks, concatenated in order, are the records in input order, *)
(* each followed by its separator: nothing lost, duplicated or reordered.  *)
(***************************************************************************)
C4_ChunksConcatenateToInput ==
  /\ cPos \in 1..(Len(cLines) + 1) =>
       Flatten(cAcc.chunks) \o cAcc.current_chunk = JoinBlocks(cLines, 1, cPos - 1)
  /\ ChunkerDone => Flatten(cOut) = JoinBlocks(cLines, 1, Len(cLines))

\* three different records spread over three chunks
C4_Witness ==
  /\ ChunkerDone
  /\ Len(cLines) = 3
  /\ Cardinality(Range(cLines)) = 3
  /\ Len(cOut) = 3
  /\ \A k \in 1..3 : cOut[k] # <<>>

(***************************************************************************)
(* C5.  A malformed row is skipped: every well-formed row (every           *)
(* well-formed matching row up to the limit, for search) is still          *)
(* delivered, and the request is never left without a delivery.            *)
(***************************************************************************)
C5_MalformedRowsAreSkipped ==
  (FetchOver(1) /\ fetched[1].status = 200
   /\ \E i \in 1..Len(fetched[1].rows) : ~WellFormed(fetched[1].rows[i]))
  =>
  LET good == SelectSeq(fetched[1].rows, WellFormed)
      expected == IF cmd[1].name = "search"
                    THEN search_results(good, cmd[1].artist)
                    ELSE list_results(good)
  IN /\ escaped[1] # "row"
     /\ sent[1] # <<>>
     /\ IsPrefix(Flatten(ChunkTexts(sent[1])), JoinBlocks(expected, 1, Len(expected)))
     /\ (pc[1] = "done" /\ escaped[1] = "none"
           => Flatten(ChunkTexts(sent[1])) = JoinBlocks(expected, 1, Len(expected)))

(***************************************************************************)
(* C6.  When the fetch fails (a non-success status or an exception), the   *)
(* fetch error message is the one thing handed to Discord: no chunk, no    *)
(* "no results" message; the handler returns normally.                     *)
(***************************************************************************)
FetchFailure(resp) == resp.exc # <<>> \/ resp.status \notin 200..299

FetchErrorText(resp) ==
  IF resp.exc # <<>> THEN resp.exc
  ELSE <<"F", "a", "i", "l", "e", "d", " ", "t", "o", " ", "f", "e", "t", "c", "h", " ", "C", "S", "V", ":", " ", "H", "T", "T", "P", " ">>
       \o IntToStr(resp.status)

OneErrorMessage(r) ==
  /\ Len(sent[r]) = 1
  /\ sent[r][1].kind = "error"
  /\ sent[r][1].text = FetchErrorText(fetched[r])

\* as claimed: the handler always returns normally
C6_Original ==
  (FetchOver(1) /\ FetchFailure(fetched[1])) =>
    /\ OneErrorMessage(1)
    /\ escaped[1] = "none"

\* as amended: the handler returns normally whenever that one handoff
\* succeeds; only the handoff's own exception can leave the handler
C6_FetchFailureIsReported ==
  (FetchOver(1) /\ FetchFailure(fetched[1])) =>
    /\ OneErrorMessage(1)
    /\ escaped[1] # "row"
    /\ pc[1] = "done" => (escaped[1] = "none" <=> sent[1][1].st = "ok")
    /\ pc[1] # "done" => (pc[1] = "sending_error" /\ sent[1][1].st = "pending")

\* HTTP 500, the message delivered, the handler back
C6_Witness ==
  /\ pc[1] = "done"
  /\ fetches[1] = 1
  /\ fetched[1].status = 500
  /\ Kinds(sent[1]) = <<"error">>
  /\ sent[1][1].st = "ok"
  /\ escaped[1] = "none"

(***************************************************************************)
(* C7.  A request from another guild gets the fixed rejection message and  *)
(* nothing else: no fetch is started, no chunk, error or "no results"      *)
(* message is handed over.                                                 *)
(***************************************************************************)
C7_OtherGuildIsRejected ==
  (cmd[1].name # "none" /\ cmd[1].guild_id # <<1395824457, 527988377>>) =>
    /\ fetches[1] = 0
    /\ fetched[1] = NoResponse
    /\ pc[1] \in {"rejecting", "done"}
    /\ Len(sent[1]) = 1
    /\ sent[1][1].kind = "reject"
    /\ sent[1][1].text = RejectMessage
    /\ results[1] = <<>> /\ chunks[1] = <<>>

\* a search from another guild, rejected and over
C7_Witness ==
  /\ cmd[1].name = "search"
  /\ cmd[1].guild_id # ALLOWED_GUILD_ID
  /\ pc[1] = "done"
  /\ sent[1][1].st = "ok"

(***************************************************************************)
(* C8.  After a successful fetch: an empty result set gets exactly one     *)
(* "no results" message and no chunk; a non-empty one gets at least one    *)
(* chunk and no "no results" message.  Never zero deliveries.              *)
(***************************************************************************)
C8_SuccessIsNeverSilent ==
  (FetchOver(1) /\ fetched[1].status = 200) =>
    LET D == fetched[1].rows
        empty == IF cmd[1].name = "list" THEN D = <<>>
                 ELSE ~ \E i \in 1..Len(D) :
                          /\ ~RowFilterRaises(D[i])
                          /\ CIContains(cmd[1].artist, D[i]["Artist Name"])
    IN IF empty
         THEN Kinds(sent[1]) = <<"none">>
         ELSE /\ Len(ChunkTexts(sent[1])) >= 1
              /\ \A k \in 1..Len(sent[1]) : sent[1][k].kind = "chunk"

(***************************************************************************)
(* C9.  Chunks are handed over in chunker order, each at most once, chunk  *)
(* i+1 only after the handoff of chunk i has succeeded; after a failed     *)
(* handoff nothing more is sent -- under every interleaving of requests.   *)
(***************************************************************************)
C9_SequentialDelivery ==
  \A r \in Requests :
    LET cs == SelectSeq(sent[r], LAMBDA m : m.kind = "chunk")
    IN /\ Len(cs) <= Len(chunks[r])
       /\ \A k \in 1..Len(cs) : cs[k].text = chunks[r][k]
       /\ \A k \in 1..Len(cs) : k < Len(cs) => cs[k].st = "ok"
       /\ \A k \in 1..Len(cs) : cs[k].st = "failed" => pc[r] = "done"
       /\ \A k \in 1..Len(cs) : cs[k].st = "pending" => pc[r] = "sending_chunks"
       /\ cs # <<>> => cs = sent[r]

\* request 1 delivered its three chunks; request 2 stopped at its failed second
C9_Witness ==
  /\ Kinds(sent[1]) = <<"chunk", "chunk", "chunk">>
  /\ \A k \in 1..3 : sent[1][k].st = "ok"
  /\ Kinds(sent[2]) = <<"chunk", "chunk">>
  /\ sent[2][2].st = "failed"
  /\ Len(chunks[2]) = 3
  /\ pc[2] = "done"

(***************************************************************************)
(* C10.  Every chunk is non-empty and holds at least one record; there are *)
(* never more chunks than records.                                         *)
(***************************************************************************)
C10_NoEmptyChunk ==
  ChunkerDone =>
    /\ \A k \in 1..Len(cOut) :
         cOut[k] # <<>> /\ RecordsIn(cLines, cOut, k) # {}
    /\ Len(cOut) <= Len(cLines)

====
